---- MODULE Spec2Model ----
(***************************************************************************)
(* pyetherscan: the retry-governed request/response pipeline.              *)
(*                                                                         *)
(* One client operation is a run of the retrying loop that wraps           *)
(* Client._get_request / Client._post_request: every attempt makes one     *)
(* HTTP call, hands the HTTP response to the response class of the         *)
(* endpoint (EtherscanResponse.__init__ followed by the class's            *)
(* parse_response), and the loop then decides between returning, raising   *)
(* and trying again.                                                       *)
(***************************************************************************)
EXTENDS Integers, Sequences, FiniteSets, TLC

VARIABLES pc, op, params, response_object, attempt_number, httpCalls,
          lastHttp, lastResp, lastAttempt, final, raised, returned,
          requested, slept,
          entity, client, clientCalls, returnedOps, accessed, fetched,
          lastCall, accesses, firstRead,
          received, constructed

\* the state of a client operation
clientVars == <<pc, op, params, response_object, attempt_number, httpCalls,
                lastHttp, lastResp, lastAttempt, final, raised, returned,
                requested, slept>>

\* the state of a domain entity; client is the Client in use
entityVars == <<entity, clientCalls, returnedOps, accessed, fetched,
                lastCall, accesses, firstRead>>

\* an HTTP response in hand and the response objects constructed from it
responseVars == <<received, constructed>>

vars == <<clientVars, client, entityVars, responseVars>>

(***************************************************************************)
(* Bounds of the inputs.                                                   *)
(***************************************************************************)
\* longest string held by a JSON string value of the model
MaxStrLen == 2
\* longest JSON list held by the result field of an envelope
MaxList == 1
\* most property reads and method calls made on one entity
MaxAccesses == 2
\* most property reads made on one Transaction, which calls no client
MaxReads == 3
\* longest list of {account, balance} pairs in a response in hand
MaxPairs == 2
\* most response objects constructed from one response in hand
MaxConstructions == 2

(***************************************************************************)
(* Exception classes.                                                      *)
(***************************************************************************)
\* the error kinds defined in lib/errors.py, each a direct subclass of
\* EtherscanBaseError
LibErrorKinds ==
    { "EtherscanInitializationError", "EtherscanConnectionError",
      "EtherscanRequestError", "EtherscanAddressError",
      "EtherscanContractError", "EtherscanTransactionError",
      "EtherscanBlockError", "EtherscanEventLogError",
      "EtherscanGethProxyError", "EtherscanWebsocketError",
      "EtherscanTokenError", "EtherscanStatsError" }

\* pyetherscan/error.py (imported by client.py, response.py and __init__.py)
\* adds EtherscanDataError to the kinds above
DataErrorKind == "EtherscanDataError"

TaxonomyKinds == LibErrorKinds \cup {DataErrorKind}

\* exceptions of the Python runtime and of the requests library that the
\* pipeline can meet
BuiltinKinds ==
    { "ValueError", "JSONDecodeError", "TypeError", "IndexError", "KeyError",
      "AttributeError", "requests.ConnectionError", "requests.Timeout" }

ExceptionKinds == TaxonomyKinds \cup BuiltinKinds

\* the base class of EtherscanDataError
DataErrorParent == "EtherscanBaseError"

\* a variant in which a request error is a connection error
Parent_request_under_connection(kind) ==
    CASE kind = "EtherscanRequestError" -> "EtherscanConnectionError"
      [] kind \in TaxonomyKinds -> "EtherscanBaseError"
      [] kind = "EtherscanBaseError" -> "Exception"
      [] kind = "JSONDecodeError" -> "ValueError"
      [] kind = "requests.Timeout" -> "requests.RequestException"
      [] kind = "requests.ConnectionError" -> "requests.RequestException"
      [] kind = "requests.RequestException" -> "IOError"
      [] kind = "Exception" -> "BaseException"
      [] OTHER -> "Exception"

\* the direct base class of every class
Parent(kind) ==
    CASE kind \in LibErrorKinds -> "EtherscanBaseError"
      [] kind = DataErrorKind -> DataErrorParent
      [] kind = "EtherscanBaseError" -> "Exception"
      [] kind = "JSONDecodeError" -> "ValueError"
      [] kind = "requests.Timeout" -> "requests.RequestException"
      [] kind = "requests.ConnectionError" -> "requests.RequestException"
      [] kind = "requests.RequestException" -> "IOError"
      [] kind = "Exception" -> "BaseException"
      [] OTHER -> "Exception"

RECURSIVE Ancestors(_)
Ancestors(kind) ==
    IF kind = "BaseException" THEN {kind}
    ELSE {kind} \cup Ancestors(Parent(kind))

\* isinstance(exception, cls)
isinstance(exception, cls) == cls \in Ancestors(exception.kind)

NoExc == [kind |-> "none", attempt |-> 0]

(***************************************************************************)
(* Python and JSON values.                                                 *)
(*                                                                         *)
(* A JSON value is [type, text, items]: None (a missing key), a string     *)
(* (text, a sequence of characters), a list of objects (items) or an       *)
(* object (items holds the object when it is not empty).                   *)
(***************************************************************************)
PyNone == "<None>"

Chars == {"0", "7", "x"}
Digits == {"0", "7"}

RECURSIVE SeqsUpTo(_, _)
SeqsUpTo(S, n) ==
    IF n = 0 THEN {<<>>}
    ELSE LET shorter == SeqsUpTo(S, n - 1)
         IN shorter \cup {Append(s, c) : s \in shorter, c \in S}

Texts == SeqsUpTo(Chars, MaxStrLen)

\* a JSON object of a result list: an {account, balance} pair, standing for
\* any record of a result list
Items == [account : {"a", "b"}, balance : {<<"0">>, <<"7">>, <<"x">>}]

NoneValue == [type |-> "None", text |-> <<>>, items |-> <<>>]
StrValue(t) == [type |-> "str", text |-> t, items |-> <<>>]
ListValue(l) == [type |-> "list", text |-> <<>>, items |-> l]
DictValue(l) == [type |-> "dict", text |-> <<>>, items |-> l]

Results ==
    {NoneValue}
    \cup {StrValue(t) : t \in Texts}
    \cup {ListValue(l) : l \in SeqsUpTo(Items, MaxList)}
    \cup {DictValue(<<>>)} \cup {DictValue(<<i>>) : i \in Items}

\* the body of an HTTP response: text that is no JSON, a JSON array, or a
\* JSON object read as the envelope {status, message, result}
InvalidBody ==
    [kind |-> "invalid", status |-> PyNone, message |-> PyNone,
     result |-> NoneValue]
ArrayBody ==
    [kind |-> "array", status |-> PyNone, message |-> PyNone,
     result |-> NoneValue]
Envelopes ==
    [kind : {"object"}, status : {"1", "0", PyNone},
     message : {"OK", "NOTOK"}, result : Results]
Bodies == {InvalidBody, ArrayBody} \cup Envelopes

StatusCodes == {200, 403, 405}
Responses == [status_code : StatusCodes, text : Bodies]
NoResp == [status_code |-> 0, text |-> InvalidBody]

DigitVal(c) == IF c = "7" THEN 7 ELSE 0

RECURSIVE DecimalValue(_)
DecimalValue(t) ==
    IF Len(t) = 0 THEN 0
    ELSE 10 * DecimalValue(SubSeq(t, 1, Len(t) - 1)) + DigitVal(t[Len(t)])

NoNumber == 0 - 1

\* float(x): the number a string of digits denotes; ValueError for any
\* other string, TypeError for None, a list or a dict
float(x) ==
    IF x.type = "str"
    THEN IF Len(x.text) > 0 /\ \A i \in 1..Len(x.text) : x.text[i] \in Digits
         THEN [exc |-> "none", val |-> DecimalValue(x.text)]
         ELSE [exc |-> "ValueError", val |-> NoNumber]
    ELSE [exc |-> "TypeError", val |-> NoNumber]

\* json.loads(text): the decoded value, or JSONDecodeError (a ValueError)
json_loads(text) ==
    IF text.kind = "invalid"
    THEN [exc |-> "JSONDecodeError", value |-> text]
    ELSE [exc |-> "none", value |-> text]

(***************************************************************************)
(* Response classes.                                                       *)
(*                                                                         *)
(* A response object is [cls, response_status_code, status, message, attr, *)
(* number, balances, payload]: attr names the attribute parse_response     *)
(* sets, held in number (a float), balances (a dict from account to float) *)
(* or payload (a JSON value stored as it came).                            *)
(***************************************************************************)
NoBalances == [a \in {} |-> 0]

Parsed(attr, number, balances, payload) ==
    [exc |-> "none", attr |-> attr, number |-> number,
     balances |-> balances, payload |-> payload]

ParseRaises(kind) ==
    [exc |-> kind, attr |-> "none", number |-> NoNumber,
     balances |-> NoBalances, payload |-> NoneValue]

\* a variant that stores result as it came
SingleAddressBalanceResponse_parse_response_unconverted(etherscan_response) ==
    Parsed("balance", NoNumber, NoBalances, etherscan_response.result)

\* self.balance = float(self.etherscan_response.get('result'))
SingleAddressBalanceResponse_parse_response(etherscan_response) ==
    LET f == float(etherscan_response.result)
    IN IF f.exc # "none" THEN ParseRaises(f.exc)
       ELSE Parsed("balance", f.val, NoBalances, NoneValue)

\* the dict comprehension {mapping.get('account'): float(mapping.get('balance'))}
\* over a list of objects: a later pair replaces an earlier one of the same
\* account, and the first balance that float() rejects raises
RECURSIVE BalancesOf(_)
BalancesOf(items) ==
    IF Len(items) = 0 THEN [exc |-> "none", map |-> NoBalances]
    ELSE LET before == BalancesOf(SubSeq(items, 1, Len(items) - 1))
             last == items[Len(items)]
             f == float(StrValue(last.balance))
         IN IF before.exc # "none" THEN before
            ELSE IF f.exc # "none" THEN [exc |-> f.exc, map |-> NoBalances]
            ELSE [exc |-> "none",
                  map |-> [a \in DOMAIN before.map \cup {last.account} |->
                             IF a = last.account THEN f.val ELSE before.map[a]]]

\* a variant that keeps the first pair of an account, not the last
MultiAddressBalanceResponse_parse_response_first(etherscan_response) ==
    LET items == etherscan_response.result.items
        reversed == [i \in 1..Len(items) |-> items[Len(items) - i + 1]]
        b == BalancesOf(reversed)
    IN IF etherscan_response.result.type # "list" THEN ParseRaises("TypeError")
       ELSE IF b.exc # "none" THEN ParseRaises(b.exc)
       ELSE Parsed("balances", NoNumber, b.map, NoneValue)

MultiAddressBalanceResponse_parse_response(etherscan_response) ==
    LET result == etherscan_response.result
    IN CASE result.type = "None" -> ParseRaises("TypeError")
         [] result.type = "str" ->
              \* the comprehension runs over the characters, which have no get
              IF Len(result.text) = 0
              THEN Parsed("balances", NoNumber, NoBalances, NoneValue)
              ELSE ParseRaises("AttributeError")
         [] result.type = "dict" ->
              \* the comprehension runs over the keys, which are strings
              IF Len(result.items) = 0
              THEN Parsed("balances", NoNumber, NoBalances, NoneValue)
              ELSE ParseRaises("AttributeError")
         [] OTHER ->
              LET b == BalancesOf(result.items)
              IN IF b.exc # "none" THEN ParseRaises(b.exc)
                 ELSE Parsed("balances", NoNumber, b.map, NoneValue)

\* self.transactions = self.etherscan_response.get('result')
TransactionsByAddressResponse_parse_response(etherscan_response) ==
    Parsed("transactions", NoNumber, NoBalances, etherscan_response.result)

\* self.transaction = self.etherscan_response.get('result')[0]
TransactionsByHashResponse_parse_response(etherscan_response) ==
    LET result == etherscan_response.result
    IN CASE result.type = "None" -> ParseRaises("TypeError")
         [] result.type = "str" ->
              IF Len(result.text) = 0 THEN ParseRaises("IndexError")
              ELSE Parsed("transaction", NoNumber, NoBalances,
                          StrValue(<<result.text[1]>>))
         [] result.type = "dict" -> ParseRaises("KeyError")
         [] OTHER ->
              IF Len(result.items) = 0 THEN ParseRaises("IndexError")
              ELSE Parsed("transaction", NoNumber, NoBalances,
                          DictValue(<<result.items[1]>>))

\* self.blocks = self.etherscan_response.get('result')
BlocksMinedByAddressResponse_parse_response(etherscan_response) ==
    Parsed("blocks", NoNumber, NoBalances, etherscan_response.result)

\* self.contract_abi = self.etherscan_response.get('result')
ContractABIByAddressResponse_parse_response(etherscan_response) ==
    Parsed("contract_abi", NoNumber, NoBalances, etherscan_response.result)

\* self.contract_status = self.etherscan_response.get('result')
ContractStatusResponse_parse_response(etherscan_response) ==
    Parsed("contract_status", NoNumber, NoBalances, etherscan_response.result)

\* self.total_supply = float(self.etherscan_response.get('result'))
TokenSupplyResponse_parse_response(etherscan_response) ==
    LET f == float(etherscan_response.result)
    IN IF f.exc # "none" THEN ParseRaises(f.exc)
       ELSE Parsed("total_supply", f.val, NoBalances, NoneValue)

\* response.TokenAccountBalanceResponse: the token balance as a float
TokenAccountBalanceResponse_parse_response(etherscan_response) ==
    LET f == float(etherscan_response.result)
    IN IF f.exc # "none" THEN ParseRaises(f.exc)
       ELSE Parsed("balance", f.val, NoBalances, NoneValue)

\* response.BlockRewardsResponse: rewards_data, the result as it came
BlockRewardsResponse_parse_response(etherscan_response) ==
    Parsed("rewards_data", NoNumber, NoBalances, etherscan_response.result)

ResponseClasses ==
    { "SingleAddressBalanceResponse", "MultiAddressBalanceResponse",
      "TransactionsByAddressResponse", "TransactionsByHashResponse",
      "BlocksMinedByAddressResponse", "ContractABIByAddressResponse",
      "ContractStatusResponse", "TokenSupplyResponse",
      "TokenAccountBalanceResponse", "BlockRewardsResponse" }

\* self.parse_response(), dispatched on the class of the object
parse_response(cls, etherscan_response) ==
    CASE cls = "SingleAddressBalanceResponse" ->
           SingleAddressBalanceResponse_parse_response(etherscan_response)
      [] cls = "MultiAddressBalanceResponse" ->
           MultiAddressBalanceResponse_parse_response(etherscan_response)
      [] cls = "TransactionsByAddressResponse" ->
           TransactionsByAddressResponse_parse_response(etherscan_response)
      [] cls = "TransactionsByHashResponse" ->
           TransactionsByHashResponse_parse_response(etherscan_response)
      [] cls = "BlocksMinedByAddressResponse" ->
           BlocksMinedByAddressResponse_parse_response(etherscan_response)
      [] cls = "ContractABIByAddressResponse" ->
           ContractABIByAddressResponse_parse_response(etherscan_response)
      [] cls = "ContractStatusResponse" ->
           ContractStatusResponse_parse_response(etherscan_response)
      [] cls = "TokenSupplyResponse" ->
           TokenSupplyResponse_parse_response(etherscan_response)
      [] cls = "TokenAccountBalanceResponse" ->
           TokenAccountBalanceResponse_parse_response(etherscan_response)
      [] OTHER ->
           BlockRewardsResponse_parse_response(etherscan_response)

NoObj ==
    [cls |-> "none", response_status_code |-> 0, status |-> PyNone,
     message |-> PyNone, attr |-> "none", number |-> NoNumber,
     balances |-> NoBalances, payload |-> NoneValue]

Raises(kind) == [exc |-> kind, obj |-> NoObj]

\* the status code on which __init__ raises 'Rate limit reached.'
RateLimitCode == 403

\* what the try block of __init__ does: json.loads(resp.text)
TryLoad(resp) == json_loads(resp.text)

\* the handler of the try block: except AttributeError
Handled(kind) == kind = "AttributeError"

\* the try statement of __init__: json.loads under except AttributeError,
\* and the else block that fills the object and calls parse_response
DecodeAndParse(cls, resp) ==
    LET loaded == TryLoad(resp)
    IN IF loaded.exc # "none"
       THEN IF Handled(loaded.exc) THEN Raises("EtherscanRequestError")
            ELSE Raises(loaded.exc)
       ELSE \* the else block, outside the handler
            IF loaded.value.kind # "object"
            THEN Raises("AttributeError")   \* a list has no get
            ELSE LET p == parse_response(cls, loaded.value)
                 IN IF p.exc # "none" THEN Raises(p.exc)
                    ELSE [exc |-> "none",
                          obj |-> [cls |-> cls,
                                   response_status_code |-> resp.status_code,
                                   status |-> loaded.value.status,
                                   message |-> loaded.value.message,
                                   attr |-> p.attr,
                                   number |-> p.number,
                                   balances |-> p.balances,
                                   payload |-> p.payload]]

\* a variant that decodes the body without looking at the status code
EtherscanResponse_init_decode_first(cls, resp) == DecodeAndParse(cls, resp)

\* a variant that raises EtherscanDataError when the envelope's status is
\* not "1"
EtherscanResponse_init_data_error(cls, resp) ==
    IF resp.status_code = RateLimitCode THEN Raises("EtherscanRequestError")
    ELSE IF resp.text.kind = "object" /\ resp.text.status # "1"
    THEN Raises("EtherscanDataError")
    ELSE DecodeAndParse(cls, resp)

\* EtherscanResponse.__init__(self, resp), for an object of class cls: the
\* exception it raises, or the object it has built
EtherscanResponse_init(cls, resp) ==
    IF resp.status_code = RateLimitCode THEN Raises("EtherscanRequestError")
    ELSE DecodeAndParse(cls, resp)

(***************************************************************************)
(* The retry policy of the request wrappers.                               *)
(***************************************************************************)
\* a variant that retries the errors of the transport only
check_exception_for_retry_transport_only(exception) ==
    isinstance(exception, "requests.RequestException")

\* a variant that forgets the request errors
check_exception_for_retry_data_only(exception) ==
    ~isinstance(exception, "EtherscanDataError")

\* check_exception_for_retry(exception): the retry_on_exception predicate
check_exception_for_retry(exception) ==
    LET data_error == isinstance(exception, "EtherscanDataError")
        request_error == isinstance(exception, "EtherscanRequestError")
    IN ~data_error /\ ~request_error

\* RETRY_KWARGS['stop_max_attempt_number']
stop_max_attempt_number == 5

\* RETRY_KWARGS['wait_exponential_multiplier'] and
\* RETRY_KWARGS['wait_exponential_max'], in milliseconds
wait_exponential_multiplier == 1000
wait_exponential_max == 10000

\* a variant without the cap
exponential_sleep_uncapped(previous_attempt_number) ==
    wait_exponential_multiplier * 2 ^ previous_attempt_number

\* exponential_sleep of the retrying loop, the wait function these
\* arguments select: the milliseconds slept after the attempt numbered
\* previous_attempt_number was rejected
exponential_sleep(previous_attempt_number) ==
    LET exp == 2 ^ previous_attempt_number
        result == wait_exponential_multiplier * exp
    IN IF result > wait_exponential_max THEN wait_exponential_max
       ELSE IF result < 0 THEN 0
       ELSE result

\* an attempt of the retrying loop: the value the wrapped function returned
\* or the exception it raised
NoAttempt == [has_exception |-> FALSE, exc |-> NoExc, obj |-> NoObj]

\* the loop rejects an attempt, and goes on, when retry_on_exception accepts
\* its exception; no retry_on_result is given, so a returned value is kept
should_reject(attempt) ==
    attempt.has_exception /\ check_exception_for_retry(attempt.exc)

\* a variant that stops one attempt early
stop_one_early(previous_attempt_number) ==
    previous_attempt_number + 1 >= stop_max_attempt_number

\* stop_after_attempt
stop(previous_attempt_number) ==
    previous_attempt_number >= stop_max_attempt_number

\* a variant that wraps the exception, as wrap_exception=True would
attempt_get_wrapped(attempt) ==
    [kind |-> "RetryError", attempt |-> attempt.exc.attempt]

\* what the loop raises when it stops: no wrap_exception is given, so the
\* exception of the attempt itself, as it was raised
attempt_get(attempt) == attempt.exc

(***************************************************************************)
(* The public operations of Client and the response class of each.         *)
(***************************************************************************)
PublicOperations ==
    { "get_single_balance", "get_multi_balance",
      "get_transactions_by_address", "get_transaction_by_hash",
      "get_blocks_mined_by_address", "get_contract_abi",
      "get_contract_execution_status", "get_token_supply_by_address",
      "get_token_balance_by_address",
      "get_block_and_uncle_rewards_by_block_number" }

ResponseObjectOf(operation) ==
    CASE operation = "get_single_balance" -> "SingleAddressBalanceResponse"
      [] operation = "get_multi_balance" -> "MultiAddressBalanceResponse"
      [] operation = "get_transactions_by_address" ->
           "TransactionsByAddressResponse"
      [] operation = "get_transaction_by_hash" -> "TransactionsByHashResponse"
      [] operation = "get_blocks_mined_by_address" ->
           "BlocksMinedByAddressResponse"
      [] operation = "get_contract_abi" -> "ContractABIByAddressResponse"
      [] operation = "get_contract_execution_status" ->
           "ContractStatusResponse"
      [] operation = "get_token_supply_by_address" -> "TokenSupplyResponse"
      [] operation = "get_token_balance_by_address" ->
           "TokenAccountBalanceResponse"
      [] OTHER -> "BlockRewardsResponse"

\* what requests.get / requests.post can raise instead of returning a
\* response: the errors of the requests library, and the taxonomy errors a
\* simulated transport raises
TransportRaises ==
    { "requests.ConnectionError", "requests.Timeout",
      "EtherscanDataError", "EtherscanRequestError" }

NoHttp == [status_code |-> 0, body |-> "none"]

HttpOf(resp) ==
    IF resp = NoResp THEN NoHttp
    ELSE [status_code |-> resp.status_code, body |-> resp.text.kind]

(***************************************************************************)
(* The parameters of the public operations and their validation.           *)
(*                                                                         *)
(* params is [addresses, page, offset]: addresses is the argument of       *)
(* get_multi_balance, by its type and its length; page and offset are None *)
(* or a number. The other parameters take no part in any check.            *)
(***************************************************************************)
\* the most addresses get_multi_balance takes in a single call
MaxAddresses == 20

\* a list of address strings (empty, short, at the limit, past the limit), a
\* single address string passed by mistake, and None
AddressArguments ==
    {[type |-> "list", len |-> n] :
        n \in {0, 1, MaxAddresses, MaxAddresses + 1}}
    \cup {[type |-> "str", len |-> 2 * MaxAddresses + 2],
          [type |-> "None", len |-> 0]}

\* the parameters of an operation that has none of the three, and the
\* defaults page=None, offset=None
NoParams ==
    [addresses |-> [type |-> "unused", len |-> 0], page |-> PyNone,
     offset |-> PyNone]

\* the operations whose signature has both page and offset
PagedOperations ==
    { "get_transactions_by_address", "get_transaction_by_hash",
      "get_blocks_mined_by_address" }

ParamsOf(operation) ==
    CASE operation = "get_multi_balance" ->
           {[addresses |-> a, page |-> PyNone, offset |-> PyNone] :
               a \in AddressArguments}
      [] operation \in PagedOperations ->
           {[NoParams EXCEPT !.page = p, !.offset = o] :
               p \in {PyNone, "1"}, o \in {PyNone, "1"}}
      [] OTHER -> {NoParams}

\* a variant without the limit on the length of the list
get_multi_balance_checks_no_limit(addresses) ==
    IF addresses.type # "list" THEN "EtherscanAddressError" ELSE "none"

\* the checks of get_multi_balance: the error it raises, or "none"
get_multi_balance_checks(addresses) ==
    IF addresses.type # "list" THEN "EtherscanAddressError"
    ELSE IF addresses.len > MaxAddresses THEN "EtherscanAddressError"
    ELSE "none"

\* "If page or offset are set, _both_ must be set", as written in
\* get_transactions_by_address and in get_blocks_mined_by_address
page_offset_checks(page, offset) ==
    IF page # PyNone \/ offset # PyNone
    THEN LET _both_set == page # PyNone /\ offset # PyNone
         IN IF ~_both_set THEN "EtherscanTransactionError" ELSE "none"
    ELSE "none"

\* what an operation raises before it builds the request URL, or "none";
\* get_transaction_by_hash takes page and offset and never looks at them
Checks(operation, p) ==
    CASE operation = "get_multi_balance" ->
           get_multi_balance_checks(p.addresses)
      [] operation = "get_transactions_by_address" ->
           page_offset_checks(p.page, p.offset)
      [] operation = "get_blocks_mined_by_address" ->
           page_offset_checks(p.page, p.offset)
      [] OTHER -> "none"

(***************************************************************************)
(* Python values held by the objects of client.py and ethereum.py.         *)
(*                                                                         *)
(* A value is [kind, of, num, json]: kind is the name of its type; num is  *)
(* the number of an int, a float or a bool; json is the string, list or    *)
(* dict of a str, a list or a dict, and what a container or a response     *)
(* object holds; of is the type of what a container holds.                 *)
(***************************************************************************)
None_ == [kind |-> "NoneType", of |-> "", num |-> 0, json |-> NoneValue]
PyInt(n) == [kind |-> "int", of |-> "", num |-> n, json |-> NoneValue]
PyFloat(n) == [kind |-> "float", of |-> "", num |-> n, json |-> NoneValue]
PyBool(b) ==
    [kind |-> "bool", of |-> "", num |-> IF b THEN 1 ELSE 0,
     json |-> NoneValue]
PyStr(t) == [kind |-> "str", of |-> "", num |-> 0, json |-> StrValue(t)]

\* the Python value of a decoded JSON value
Json(v) ==
    IF v.type = "None" THEN None_
    ELSE [kind |-> v.type, of |-> "", num |-> 0, json |-> v]

\* an object of class cls that holds the value v
Holding(cls, v) ==
    [kind |-> cls, of |-> v.kind, num |-> v.num, json |-> v.json]

\* a variant that takes every value but None as true
truth_unless_None(v) == v.kind # "NoneType"

\* bool(v), as the operator "or" takes it
truth(v) ==
    CASE v.kind = "NoneType" -> FALSE
      [] v.kind \in {"int", "float", "bool"} -> v.num # 0
      [] v.kind = "str" -> Len(v.json.text) > 0
      [] v.kind \in {"list", "dict"} -> Len(v.json.items) > 0
      [] OTHER -> TRUE

\* isinstance(v, types), for built-in types: bool is a subclass of int
has_type(v, types) ==
    \/ v.kind \in types
    \/ v.kind = "bool" /\ "int" \in types

Value(v) == [exc |-> "none", value |-> v]
Throws(kind) == [exc |-> kind, value |-> None_]

\* int(v)
int(v) ==
    CASE v.kind \in {"int", "float", "bool"} -> Value(PyInt(v.num))
      [] v.kind = "str" ->
           LET f == float(v.json)
           IN IF f.exc # "none" THEN Throws(f.exc) ELSE Value(PyInt(f.val))
      [] OTHER -> Throws("TypeError")

\* float(v)
to_float(v) ==
    CASE v.kind \in {"int", "float", "bool"} -> Value(PyFloat(v.num))
      [] v.kind = "str" ->
           LET f == float(v.json)
           IN IF f.exc # "none" THEN Throws(f.exc) ELSE Value(PyFloat(f.val))
      [] OTHER -> Throws("TypeError")

\* str(v), for the values it is applied to
str(v) == IF v.kind = "NoneType" THEN PyStr(<<"None">>) ELSE v

\* a + b: two lists or two strings are concatenated
add(a, b) ==
    CASE a.kind = "list" /\ b.kind = "list" ->
           Value(Json(ListValue(a.json.items \o b.json.items)))
      [] a.kind = "str" /\ b.kind = "str" ->
           Value(Json(StrValue(a.json.text \o b.json.text)))
      [] OTHER -> Throws("TypeError")

\* v.get(key): a record of the API is read in the shape of Items, its
\* number, written as a string, under every key that holds a number, its
\* address under every key that holds an address or a hash, and an empty
\* list of uncles
get(v, key) ==
    IF v.kind # "dict" THEN Throws("AttributeError")
    ELSE IF Len(v.json.items) = 0 THEN Value(None_)
    ELSE LET record == v.json.items[1]
         IN CASE key \in { "blockNumber", "timeStamp", "value",
                           "blockReward", "uncleInclusionReward" } ->
                   Value(PyStr(record.balance))
              [] key \in {"blockMiner", "hash"} ->
                   Value(PyStr(<<record.account>>))
              [] key = "uncles" -> Value(Json(ListValue(<<>>)))
              [] OTHER -> Value(None_)

\* v[index]
getitem(v, index) ==
    CASE v.kind = "list" ->
           IF index < Len(v.json.items)
           THEN Value(Json(DictValue(<<v.json.items[index + 1]>>)))
           ELSE Throws("IndexError")
      [] v.kind = "str" ->
           IF index < Len(v.json.text)
           THEN Value(PyStr(<<v.json.text[index + 1]>>))
           ELSE Throws("IndexError")
      [] v.kind = "dict" -> Throws("KeyError")
      [] OTHER -> Throws("TypeError")   \* the object has no __getitem__

(***************************************************************************)
(* Client.__init__.                                                        *)
(***************************************************************************)
\* settings.TESTING_API_KEY
TESTING_API_KEY == <<"YourApiKeyToken">>

\* settings.ETHERSCAN_API_KEY: the key of the configuration file or of the
\* environment, TESTING_API_KEY when there is none
ETHERSCAN_API_KEY == PyStr(TESTING_API_KEY)

NoClient ==
    [apikey |-> None_, timeout |-> None_, _base_url |-> "none",
     key_uri |-> <<>>]

\* Client.__init__(self, apikey, timeout) under Python 3
Client_init(apikey, timeout) ==
    IF ~has_type(apikey, {"str"})
    THEN [exc |-> "EtherscanInitializationError", obj |-> NoClient]
    ELSE IF ~has_type(timeout, {"float", "int"})
    THEN [exc |-> "EtherscanInitializationError", obj |-> NoClient]
    ELSE [exc |-> "none",
          obj |-> [apikey |-> apikey, timeout |-> timeout,
                   _base_url |-> IF apikey = PyStr(TESTING_API_KEY)
                                 THEN "https://ropsten.etherscan.io/"
                                 ELSE "https://api.etherscan.io/",
                   key_uri |-> <<"&apikey=">> \o apikey.json.text]]

\* the URL a public operation builds: self._base_url, the module and the
\* action of the operation with its parameters, and self.key_uri
UrlOf(self, operation) ==
    [base |-> self._base_url, operation |-> operation,
     key_uri |-> self.key_uri]

NoPayload ==
    [url |-> [base |-> "none", operation |-> "none", key_uri |-> <<>>],
     timeout |-> None_]

\* a variant that takes the timeout out of the client
Client_prep_request_pops_timeout(self, url) ==
    [payload |-> [url |-> url, timeout |-> self.timeout],
     self |-> [self EXCEPT !.timeout = None_]]

\* Client._prep_request(self, url): the payload it returns and the client
\* afterwards
Client_prep_request(self, url) ==
    [payload |-> [url |-> url, timeout |-> self.timeout], self |-> self]

(***************************************************************************)
(* The domain entities of ethereum.py.                                     *)
(*                                                                         *)
(* An entity is [cls, key, cache]: key is what it was constructed from     *)
(* (address, contract_address, block_number, _data) and cache holds its    *)
(* private attributes, None until computed. What a property or a method    *)
(* does is [self, exc, value, calls]: the entity afterwards, the exception *)
(* raised or the value returned, and the client calls made, each with      *)
(* whether it returned.                                                    *)
(***************************************************************************)
CacheAttrs ==
    { "_balance", "_transactions", "_block_list", "_supply",
      "_block_reward_data", "_time_stamp", "_block_miner", "_datetime_mined",
      "_block_reward", "_uncles", "_uncle_inclusion_reward",
      "_block_number", "_value", "_hash" }

EmptyCache == [a \in CacheAttrs |-> None_]

NoEntity == [cls |-> "none", key |-> None_, cache |-> EmptyCache]

Constructed(cls, key) ==
    [exc |-> "none", self |-> [cls |-> cls, key |-> key, cache |-> EmptyCache]]

ConstructorRaises(kind) == [exc |-> kind, self |-> NoEntity]

\* self.client = client.Client()
DefaultClient == Client_init(ETHERSCAN_API_KEY, PyInt(5))

\* Address.__init__(self, address)
Address_init(address) ==
    IF ~has_type(address, {"str"})
    THEN ConstructorRaises("EtherscanInitializationError")
    ELSE IF DefaultClient.exc # "none" THEN ConstructorRaises(DefaultClient.exc)
    ELSE Constructed("Address", address)

\* Token.__init__(self, contract_address)
Token_init(contract_address) ==
    IF ~has_type(contract_address, {"str"})
    THEN ConstructorRaises("EtherscanInitializationError")
    ELSE IF DefaultClient.exc # "none" THEN ConstructorRaises(DefaultClient.exc)
    ELSE Constructed("Token", contract_address)

\* Transaction.__init__(self, data)
Transaction_init(data) ==
    IF ~has_type(data, {"dict"})
    THEN ConstructorRaises("EtherscanInitializationError")
    ELSE Constructed("Transaction", data)

\* a variant that takes any number for a block number
Block_init_any_number(block_number) ==
    IF ~has_type(block_number, {"int", "float", "str"})
    THEN ConstructorRaises("EtherscanInitializationError")
    ELSE Constructed("Block", block_number)

\* Block.__init__(self, block_number)
Block_init(block_number) ==
    IF ~has_type(block_number, {"int", "str"})
    THEN ConstructorRaises("EtherscanInitializationError")
    ELSE IF DefaultClient.exc # "none" THEN ConstructorRaises(DefaultClient.exc)
    ELSE Constructed("Block", block_number)

Ret(self, v, calls) ==
    [self |-> self, exc |-> "none", value |-> v, calls |-> calls]

Exc(self, kind, calls) ==
    [self |-> self, exc |-> kind, value |-> None_, calls |-> calls]

\* a variant that writes the value over the key as well
Set_over_key(self, attr, v) == [self EXCEPT !.key = v, !.cache[attr] = v]

\* self.<attr> = v
Set(self, attr, v) == [self EXCEPT !.cache[attr] = v]

\* one call of a client operation that ended as out
Called(operation, out) ==
    <<[op |-> operation, returned |-> out.exc = "none"]>>

\* F(g.value), unless computing g raised
Convert(g, F(_)) == IF g.exc # "none" THEN g ELSE F(g.value)

\* self.<attr> = x; return self.<attr>, after r and unless computing x raised
Store(r, attr, x) ==
    IF x.exc # "none" THEN Exc(r.self, x.exc, r.calls)
    ELSE Ret(Set(r.self, attr, x.value), x.value, r.calls)

\* ---- Address ----
Address_retrieve_balance(self, out) ==
    IF out.exc # "none"
    THEN Exc(self, out.exc, Called("get_single_balance", out))
    ELSE Store(Ret(self, None_, Called("get_single_balance", out)),
               "_balance", Value(PyFloat(out.obj.number)))

\* return self._balance or self._retrieve_balance()
Address_balance(self, out) ==
    IF truth(self.cache["_balance"])
    THEN Ret(self, self.cache["_balance"], <<>>)
    ELSE Address_retrieve_balance(self, out)

\* the two calls and the sum of the two lists; the method has no return
\* statement, so it returns None
Address_retrieve_transactions_for_address(self, normal, internal) ==
    LET first == Called("get_transactions_by_address", normal)
        both == first \o Called("get_transactions_by_address", internal)
    IN IF normal.exc # "none" THEN Exc(self, normal.exc, first)
       ELSE IF internal.exc # "none" THEN Exc(self, internal.exc, both)
       ELSE LET sum == add(Json(normal.obj.payload),
                           Json(internal.obj.payload))
            IN IF sum.exc # "none" THEN Exc(self, sum.exc, both)
               ELSE Ret(Set(self, "_transactions", sum.value), None_, both)

\* return self._transactions or self._retrieve_transactions_for_address()
Address_raw_transactions(self, normal, internal) ==
    IF truth(self.cache["_transactions"])
    THEN Ret(self, self.cache["_transactions"], <<>>)
    ELSE Address_retrieve_transactions_for_address(self, normal, internal)

\* return TransactionContainer(self._raw_transactions)
Address_transactions(self, normal, internal) ==
    LET raw == Address_raw_transactions(self, normal, internal)
    IN IF raw.exc # "none" THEN raw
       ELSE Ret(raw.self, Holding("TransactionContainer", raw.value),
                raw.calls)

\* self._block_list is the response object itself
Address_retrieve_block_list(self, out) ==
    IF out.exc # "none"
    THEN Exc(self, out.exc, Called("get_blocks_mined_by_address", out))
    ELSE Store(Ret(self, None_, Called("get_blocks_mined_by_address", out)),
               "_block_list",
               Value(Holding(out.obj.cls, Json(out.obj.payload))))

\* blocks = self._block_list or self._retrieve_block_list();
\* return BlockContainer(blocks)
Address_blocks_mined(self, out) ==
    LET blocks == IF truth(self.cache["_block_list"])
                  THEN Ret(self, self.cache["_block_list"], <<>>)
                  ELSE Address_retrieve_block_list(self, out)
    IN IF blocks.exc # "none" THEN blocks
       ELSE Ret(blocks.self,
                [kind |-> "BlockContainer", of |-> blocks.value.kind,
                 num |-> 0, json |-> blocks.value.json],
                blocks.calls)

\* Block(block_number), as a value
NewBlock(block_number) ==
    LET b == Block_init(block_number)
    IN IF b.exc # "none" THEN Throws(b.exc)
       ELSE Value(Holding("Block", block_number))

\* BlockContainer.__getitem__(self, index): block_list is what the
\* container holds, a list or an object of another type
BlockContainer_getitem(container, index) ==
    LET block_list ==
            IF container.of \in {"list", "str", "dict", "NoneType"}
            THEN Json(container.json)
            ELSE [kind |-> container.of, of |-> "", num |-> 0,
                  json |-> container.json]
        block_to_return == getitem(block_list, index)
        blockNumber == IF block_to_return.exc # "none" THEN block_to_return
                       ELSE get(block_to_return.value, "blockNumber")
        block_number == IF blockNumber.exc # "none" THEN blockNumber
                        ELSE int(blockNumber.value)
    IN IF block_number.exc # "none" THEN block_number
       ELSE NewBlock(block_number.value)

\* address.blocks_mined[index]
Address_blocks_mined_getitem(self, out, index) ==
    LET blocks == Address_blocks_mined(self, out)
    IN IF blocks.exc # "none" THEN blocks
       ELSE LET b == BlockContainer_getitem(blocks.value, index)
            IN IF b.exc # "none" THEN Exc(blocks.self, b.exc, blocks.calls)
               ELSE Ret(blocks.self, b.value, blocks.calls)

\* a variant that keeps the token balance in self._balance
token_balance_cached(self, out) ==
    IF truth(self.cache["_balance"])
    THEN Ret(self, self.cache["_balance"], <<>>)
    ELSE IF out.exc # "none"
    THEN Exc(self, out.exc, Called("get_token_balance_by_address", out))
    ELSE Store(Ret(self, None_, Called("get_token_balance_by_address", out)),
               "_balance", Value(PyFloat(out.obj.number)))

\* Address.token_balance(contract_address) and Token.token_balance(address):
\* token = self.client.get_token_balance_by_address(...); return token.balance
token_balance(self, out) ==
    IF out.exc # "none"
    THEN Exc(self, out.exc, Called("get_token_balance_by_address", out))
    ELSE Ret(self, PyFloat(out.obj.number),
             Called("get_token_balance_by_address", out))

\* ---- Token ----
Token_retrieve_supply(self, out) ==
    IF out.exc # "none"
    THEN Exc(self, out.exc, Called("get_token_supply_by_address", out))
    ELSE Store(Ret(self, None_, Called("get_token_supply_by_address", out)),
               "_supply", Value(PyFloat(out.obj.number)))

\* return self._supply or self._retrieve_supply()
Token_supply(self, out) ==
    IF truth(self.cache["_supply"])
    THEN Ret(self, self.cache["_supply"], <<>>)
    ELSE Token_retrieve_supply(self, out)

\* ---- Block ----
RewardsOperation == "get_block_and_uncle_rewards_by_block_number"

Block_retrieve_block_reward_data(self, out) ==
    IF out.exc # "none" THEN Exc(self, out.exc, Called(RewardsOperation, out))
    ELSE Store(Ret(self, None_, Called(RewardsOperation, out)),
               "_block_reward_data", Value(Json(out.obj.payload)))

\* return self._block_reward_data or self._retrieve_block_reward_data()
Block_raw_block_data(self, out) ==
    IF truth(self.cache["_block_reward_data"])
    THEN Ret(self, self.cache["_block_reward_data"], <<>>)
    ELSE Block_retrieve_block_reward_data(self, out)

\* a cached attribute if it is true, or else the value under key of the
\* raw block data, converted by F and stored
Block_attribute(self, out, attr, key, F(_)) ==
    IF truth(self.cache[attr]) THEN Ret(self, self.cache[attr], <<>>)
    ELSE LET raw == Block_raw_block_data(self, out)
         IN IF raw.exc # "none" THEN raw
            ELSE Store(raw, attr, Convert(get(raw.value, key), F))

\* int(self._raw_block_data.get('timeStamp'))
Block_time_stamp(self, out) ==
    Block_attribute(self, out, "_time_stamp", "timeStamp", int)

\* Address(str(self._raw_block_data.get('blockMiner')))
NewAddress(miner) ==
    LET a == Address_init(str(miner))
    IN IF a.exc # "none" THEN Throws(a.exc)
       ELSE Value(Holding("Address", str(miner)))

Block_block_miner(self, out) ==
    Block_attribute(self, out, "_block_miner", "blockMiner", NewAddress)

\* float(self._raw_block_data.get('blockReward'))
Block_block_reward(self, out) ==
    Block_attribute(self, out, "_block_reward", "blockReward", to_float)

\* the list comprehension over self._raw_block_data.get('uncles')
ParsedUncles(uncles) ==
    IF uncles.kind = "list" /\ Len(uncles.json.items) = 0
    THEN Value(uncles)
    ELSE Throws("TypeError")

Block_uncles(self, out) ==
    Block_attribute(self, out, "_uncles", "uncles", ParsedUncles)

\* float(self._raw_block_data.get('uncleInclusionReward'))
Block_uncle_inclusion_reward(self, out) ==
    Block_attribute(self, out, "_uncle_inclusion_reward",
                    "uncleInclusionReward", to_float)

\* return self._datetime_mined or self._convert_time_stamp(), which reads
\* self.time_stamp
Block_datetime_mined(self, out) ==
    IF truth(self.cache["_datetime_mined"])
    THEN Ret(self, self.cache["_datetime_mined"], <<>>)
    ELSE LET t == Block_time_stamp(self, out)
         IN IF t.exc # "none" THEN t
            ELSE Store(t, "_datetime_mined",
                       Value(Holding("datetime", t.value)))

\* ---- Transaction ----
\* a cached attribute if it is true, or else self._data.get(key), converted
\* by F and stored
Transaction_attribute(self, attr, key, F(_)) ==
    IF truth(self.cache[attr]) THEN Ret(self, self.cache[attr], <<>>)
    ELSE Store(Ret(self, None_, <<>>), attr, Convert(get(self.key, key), F))

Transaction_block_number(self) ==
    Transaction_attribute(self, "_block_number", "blockNumber", int)

Transaction_value(self) ==
    Transaction_attribute(self, "_value", "value", to_float)

Transaction_hash(self) ==
    Transaction_attribute(self, "_hash", "hash", Value)

\* return Block(self._block_number)
Transaction_block(self) ==
    LET b == NewBlock(self.cache["_block_number"])
    IN IF b.exc # "none" THEN Exc(self, b.exc, <<>>)
       ELSE Ret(self, b.value, <<>>)

(***************************************************************************)
(* State and actions.                                                      *)
(*                                                                         *)
(* pc              "idle", "attempt" (inside the retrying loop) or "done"  *)
(* op              the public operation running, or "_post_request"        *)
(* params          the parameters the operation was called with            *)
(* response_object the response class handed to the wrapper                *)
(* attempt_number  the loop's attempt counter                              *)
(* httpCalls       HTTP calls made by the operation so far                 *)
(* lastHttp        of the last attempt's HTTP call: the status code and    *)
(*                 the kind of body it got, NoHttp when the call raised    *)
(* lastResp        the HTTP response of the attempt that ended the         *)
(*                 operation, if that attempt got one                      *)
(* lastAttempt     the outcome of the last attempt                         *)
(* final           "none", "returned" or "raised"                          *)
(* raised          the exception the operation ended with                  *)
(* returned        the response object the operation returned              *)
(* requested       the arguments of the last requests.get or requests.post *)
(* slept           the waits of the retrying loop, in milliseconds         *)
(* client          the Client the operation is called on                   *)
(***************************************************************************)
ClientInit ==
    /\ pc = "idle"
    /\ op = "none"
    /\ params = NoParams
    /\ response_object = "none"
    /\ attempt_number = 0
    /\ httpCalls = 0
    /\ lastHttp = NoHttp
    /\ lastResp = NoResp
    /\ lastAttempt = NoAttempt
    /\ final = "none"
    /\ raised = NoExc
    /\ returned = NoObj
    /\ requested = NoPayload
    /\ slept = <<>>

\* the client operations the entities call
EntityOperations ==
    { "get_single_balance", "get_transactions_by_address",
      "get_blocks_mined_by_address", "get_token_supply_by_address",
      "get_token_balance_by_address", RewardsOperation }

NoCall == [name |-> "none", args |-> <<>>, exc |-> "none", value |-> None_]

NoFetched == [normal |-> None_, internal |-> None_]

\* the properties of a Transaction that are read, and the outcome of the
\* first read of each
TransactionProperties == {"block_number", "block", "value", "hash"}

NoReads == [p \in TransactionProperties |-> [exc |-> "unread", value |-> None_]]

\* no entity has been constructed
EntityInit ==
    /\ entity = NoEntity
    /\ clientCalls = [o \in EntityOperations |-> 0]
    /\ returnedOps = {}
    /\ accessed = {}
    /\ fetched = NoFetched
    /\ lastCall = NoCall
    /\ accesses = 0
    /\ firstRead = NoReads

\* no HTTP response is in hand
ResponseInit ==
    /\ received = [response_object |-> "none", resp |-> NoResp]
    /\ constructed = <<>>

\* a client, Client(), has been constructed and is idle
Init ==
    /\ ClientInit
    /\ client = DefaultClient.obj
    /\ EntityInit
    /\ ResponseInit

Enter(operation, p, cls) ==
    /\ pc' = "attempt"
    /\ op' = operation
    /\ params' = p
    /\ response_object' = cls
    /\ attempt_number' = 1
    /\ httpCalls' = 0
    /\ lastHttp' = NoHttp
    /\ lastResp' = NoResp
    /\ lastAttempt' = NoAttempt
    /\ final' = "none"
    /\ raised' = NoExc
    /\ returned' = NoObj
    /\ requested' = NoPayload
    /\ slept' = <<>>

\* a check of the operation raised: no request is built and the retrying
\* loop is never entered
RaiseAtOnce(operation, p, kind) ==
    /\ pc' = "done"
    /\ op' = operation
    /\ params' = p
    /\ response_object' = "none"
    /\ attempt_number' = 0
    /\ httpCalls' = 0
    /\ lastHttp' = NoHttp
    /\ lastResp' = NoResp
    /\ lastAttempt' = NoAttempt
    /\ final' = "raised"
    /\ raised' = [kind |-> kind, attempt |-> 0]
    /\ returned' = NoObj
    /\ requested' = NoPayload
    /\ slept' = <<>>

\* a public operation: its checks, then return self._get_request(url,
\* response_object)
Call ==
    /\ UNCHANGED <<client, entityVars, responseVars>>
    /\ pc = "idle"
    /\ \E operation \in PublicOperations :
         \E p \in ParamsOf(operation) :
            LET kind == Checks(operation, p)
            IN IF kind # "none"
               THEN RaiseAtOnce(operation, p, kind)
               ELSE Enter(operation, p, ResponseObjectOf(operation))

\* Client._post_request(url, response_object), which no public operation
\* uses
CallPost ==
    /\ UNCHANGED <<client, entityVars, responseVars>>
    /\ pc = "idle"
    /\ \E cls \in ResponseClasses : Enter("_post_request", NoParams, cls)

\* one iteration of the retrying loop around the wrapper: the wrapper
\* prepares the payload and makes the HTTP call, which ended as attempt
Conclude(attempt, resp) ==
    /\ LET prepared == Client_prep_request(client, UrlOf(client, op))
       IN requested' = prepared.payload /\ client' = prepared.self
    /\ httpCalls' = httpCalls + 1
    /\ lastHttp' = HttpOf(resp)
    /\ lastAttempt' = attempt
    /\ UNCHANGED <<op, params, response_object>>
    /\ IF ~should_reject(attempt)
       THEN /\ pc' = "done"
            /\ attempt_number' = attempt_number
            /\ lastResp' = resp
            /\ slept' = slept
            /\ IF attempt.has_exception
               THEN final' = "raised" /\ raised' = attempt.exc
                    /\ returned' = NoObj
               ELSE final' = "returned" /\ returned' = attempt.obj
                    /\ raised' = NoExc
       ELSE IF stop(attempt_number)
       THEN /\ pc' = "done"
            /\ attempt_number' = attempt_number
            /\ lastResp' = resp
            /\ final' = "raised"
            /\ raised' = attempt_get(attempt)
            /\ returned' = NoObj
            /\ slept' = slept
       ELSE \* the loop sleeps and calls the wrapper again: the rejected
            \* attempt's response is dropped, its exception is remembered
            /\ pc' = "attempt"
            /\ attempt_number' = attempt_number + 1
            /\ lastResp' = NoResp
            /\ slept' = Append(slept, exponential_sleep(attempt_number))
            /\ UNCHANGED <<final, raised, returned>>

\* an attempt whose HTTP call raises
AttemptTransportRaises ==
    /\ UNCHANGED <<entityVars, responseVars>>
    /\ pc = "attempt"
    /\ \E kind \in TransportRaises :
         Conclude([has_exception |-> TRUE,
                   exc |-> [kind |-> kind, attempt |-> attempt_number],
                   obj |-> NoObj], NoResp)

\* an attempt whose HTTP call returns resp: return response_object(resp)
AttemptResponds ==
    /\ UNCHANGED <<entityVars, responseVars>>
    /\ pc = "attempt"
    /\ \E resp \in Responses :
         LET r == EtherscanResponse_init(response_object, resp)
         IN Conclude([has_exception |-> r.exc # "none",
                      exc |-> IF r.exc # "none"
                              THEN [kind |-> r.exc, attempt |-> attempt_number]
                              ELSE NoExc,
                      obj |-> r.obj], resp)

\* the caller has the result or the exception; the client is idle again
Finish ==
    /\ UNCHANGED <<client, entityVars, responseVars>>
    /\ pc = "done"
    /\ pc' = "idle"
    /\ op' = "none"
    /\ params' = NoParams
    /\ response_object' = "none"
    /\ attempt_number' = 0
    /\ httpCalls' = 0
    /\ lastHttp' = NoHttp
    /\ lastResp' = NoResp
    /\ lastAttempt' = NoAttempt
    /\ final' = "none"
    /\ raised' = NoExc
    /\ returned' = NoObj
    /\ requested' = NoPayload
    /\ slept' = <<>>

Next ==
    \/ Call
    \/ CallPost
    \/ AttemptTransportRaises
    \/ AttemptResponds
    \/ Finish

Spec == Init /\ [][Next]_vars

(***************************************************************************)
(* The entities in use: one entity at a time is constructed, read and      *)
(* dropped. A client operation an entity calls is the whole retrying loop  *)
(* above, taken as one step that ends as its last attempt ends.            *)
(*                                                                         *)
(* entity      the entity in use, NoEntity when there is none              *)
(* client      the Client last constructed                                 *)
(* clientCalls per client operation, the calls the entity has made         *)
(* returnedOps the client operations that have returned to the entity      *)
(* accessed    the properties of the entity whose read has returned        *)
(* fetched     the two results the last computation of the transactions    *)
(*             got from the API                                            *)
(* lastCall    the last constructor call, property read or method call,    *)
(*             its arguments and how it ended                              *)
(* accesses    the reads and method calls made on the entity               *)
(***************************************************************************)
\* the endpoints the entities use: the client operations they call, the
\* transactions apart by the parameter internal
InternalTransactions == "get_transactions_by_address(internal=True)"

Endpoints == EntityOperations \cup {InternalTransactions}

OperationOf(endpoint) ==
    IF endpoint = InternalTransactions THEN "get_transactions_by_address"
    ELSE endpoint

\* the results of the rewards of a block: null, a string, an empty or a
\* full record
RewardsResults ==
    {NoneValue, StrValue(<<"x">>), DictValue(<<>>)}
    \cup {DictValue(<<i>>) : i \in {j \in Items : j.account = "a"}}

\* the results of the envelopes the entities meet, by endpoint: null or a
\* list of records for the transactions (normal and internal ones differ)
\* and for the mined blocks; null or a string for a balance or a supply
ResultsOf(endpoint) ==
    LET records(account, numbers) ==
            {i \in Items : i.account = account /\ i.balance \in numbers}
        lists(items) == {ListValue(l) : l \in SeqsUpTo(items, MaxList)}
    IN CASE endpoint = "get_transactions_by_address" ->
              {NoneValue} \cup lists(records("a", {<<"0">>, <<"7">>}))
         [] endpoint = InternalTransactions ->
              {NoneValue} \cup lists(records("b", {<<"7">>}))
         [] endpoint = "get_blocks_mined_by_address" ->
              {NoneValue} \cup lists(records("a", {<<"7">>, <<"x">>}))
         [] endpoint = RewardsOperation -> RewardsResults
         [] OTHER ->
              {NoneValue, StrValue(<<"0">>), StrValue(<<"7">>),
               StrValue(<<"x">>)}

\* how a public operation called with its default parameters can end, by
\* endpoint: what its checks raise, or what its last attempt raised (a
\* timeout, the rate limit) or returned
ClientOutcomes ==
    [endpoint \in Endpoints |->
        LET operation == OperationOf(endpoint)
        IN IF Checks(operation, NoParams) # "none"
           THEN {Raises(Checks(operation, NoParams))}
           ELSE {Raises("requests.Timeout")}
                \cup {EtherscanResponse_init(ResponseObjectOf(operation),
                                             resp) :
                         resp \in [status_code : {200, RateLimitCode},
                                   text : [kind : {"object"},
                                           status : {"1"},
                                           message : {"OK"},
                                           result : ResultsOf(endpoint)]]}]

\* the arguments the constructors of the entities are called with
KeyArguments ==
    { PyStr(<<"a">>), PyStr(<<"7">>), PyInt(7), PyInt(0), PyFloat(2),
      PyBool(TRUE), None_, Json(ListValue(<<>>)), Json(DictValue(<<>>)) }
    \cup {Json(DictValue(<<i>>)) : i \in {j \in Items : j.account = "a"}}

\* a constructor call that ended as r
Construct(name, key, r) ==
    /\ entity' = r.self
    /\ client' = IF r.exc = "none" /\ r.self.cls # "Transaction"
                 THEN DefaultClient.obj ELSE client
    /\ lastCall' = [name |-> name, args |-> <<key>>, exc |-> r.exc,
                    value |-> None_]
    /\ UNCHANGED <<clientCalls, returnedOps, accessed, fetched, accesses,
                   firstRead>>
    /\ UNCHANGED <<clientVars, responseVars>>

\* Client(apikey, timeout)
NewClient ==
    /\ entity.cls = "none"
    /\ lastCall = NoCall
    /\ \E apikey \in {PyStr(<<>>), PyStr(<<"x">>), PyStr(TESTING_API_KEY),
                       None_, PyInt(7)},
          timeout \in {PyInt(5), PyInt(0), PyInt(0 - 1), PyFloat(2),
                        PyBool(TRUE), None_, PyStr(<<"7">>)} :
         LET r == Client_init(apikey, timeout)
         IN /\ client' = r.obj
            /\ lastCall' = [name |-> "Client", args |-> <<apikey, timeout>>,
                            exc |-> r.exc, value |-> None_]
    /\ UNCHANGED <<entity, clientCalls, returnedOps, accessed, fetched,
                   accesses, firstRead>>
    /\ UNCHANGED <<clientVars, responseVars>>

NewAddressEntity ==
    /\ entity.cls = "none"
    /\ lastCall = NoCall
    /\ \E key \in KeyArguments : Construct("Address", key, Address_init(key))

NewTokenEntity ==
    /\ entity.cls = "none"
    /\ lastCall = NoCall
    /\ \E key \in KeyArguments : Construct("Token", key, Token_init(key))

NewTransactionEntity ==
    /\ entity.cls = "none"
    /\ lastCall = NoCall
    /\ \E key \in KeyArguments :
         Construct("Transaction", key, Transaction_init(key))

NewBlockEntity ==
    /\ entity.cls = "none"
    /\ lastCall = NoCall
    /\ \E key \in KeyArguments : Construct("Block", key, Block_init(key))

\* a property read or a method call on the entity that ended as r, and left
\* f as the results fetched for the transactions
Access(name, args, r, f) ==
    /\ accesses < (IF entity.cls = "Transaction" THEN MaxReads
                   ELSE MaxAccesses)
    /\ accesses' = accesses + 1
    /\ entity' = r.self
    /\ lastCall' = [name |-> name, args |-> args, exc |-> r.exc,
                    value |-> r.value]
    /\ clientCalls' =
         [o \in EntityOperations |->
            clientCalls[o]
            + Cardinality({i \in 1..Len(r.calls) : r.calls[i].op = o})]
    /\ returnedOps' =
         returnedOps
         \cup {r.calls[i].op : i \in {j \in 1..Len(r.calls) :
                                        r.calls[j].returned}}
    /\ accessed' = IF r.exc = "none" THEN accessed \cup {name} ELSE accessed
    /\ fetched' = f
    /\ firstRead' =
         IF entity.cls = "Transaction" /\ firstRead[name].exc = "unread"
         THEN [firstRead EXCEPT ![name] = [exc |-> r.exc, value |-> r.value]]
         ELSE firstRead
    /\ UNCHANGED client
    /\ UNCHANGED <<clientVars, responseVars>>

ReadAddressBalance ==
    /\ entity.cls = "Address"
    /\ \E out \in ClientOutcomes["get_single_balance"] :
         Access("balance", <<>>, Address_balance(entity, out), fetched)

ReadAddressTransactions ==
    /\ entity.cls = "Address"
    /\ \E normal \in ClientOutcomes["get_transactions_by_address"] :
         \E internal \in ClientOutcomes[InternalTransactions] :
            LET r == Address_transactions(entity, normal, internal)
                \* what the calls of this computation got from the API
                got == IF Len(r.calls) = 0 THEN fetched
                       ELSE [normal |-> IF normal.exc = "none"
                                        THEN Json(normal.obj.payload)
                                        ELSE None_,
                             internal |->
                                 IF Len(r.calls) = 2 /\ internal.exc = "none"
                                 THEN Json(internal.obj.payload)
                                 ELSE None_]
            IN Access("transactions", <<>>, r, got)

ReadAddressBlocksMined ==
    /\ entity.cls = "Address"
    /\ \E out \in ClientOutcomes["get_blocks_mined_by_address"] :
         Access("blocks_mined", <<>>, Address_blocks_mined(entity, out),
                fetched)

ReadAddressBlocksMinedItem ==
    /\ entity.cls = "Address"
    /\ \E out \in ClientOutcomes["get_blocks_mined_by_address"] :
         \E index \in 0..(MaxList - 1) :
            Access("blocks_mined[]", <<PyInt(index)>>,
                   Address_blocks_mined_getitem(entity, out, index), fetched)

CallTokenBalance ==
    /\ entity.cls \in {"Address", "Token"}
    /\ \E out \in ClientOutcomes["get_token_balance_by_address"] :
         Access("token_balance", <<PyStr(<<"a">>)>>,
                token_balance(entity, out), fetched)

ReadTokenSupply ==
    /\ entity.cls = "Token"
    /\ \E out \in ClientOutcomes["get_token_supply_by_address"] :
         Access("supply", <<>>, Token_supply(entity, out), fetched)

ReadBlockTimeStamp ==
    /\ entity.cls = "Block"
    /\ \E out \in ClientOutcomes[RewardsOperation] :
         Access("time_stamp", <<>>, Block_time_stamp(entity, out), fetched)

ReadBlockMiner ==
    /\ entity.cls = "Block"
    /\ \E out \in ClientOutcomes[RewardsOperation] :
         Access("block_miner", <<>>, Block_block_miner(entity, out), fetched)

ReadBlockReward ==
    /\ entity.cls = "Block"
    /\ \E out \in ClientOutcomes[RewardsOperation] :
         Access("block_reward", <<>>, Block_block_reward(entity, out),
                fetched)

ReadBlockUncles ==
    /\ entity.cls = "Block"
    /\ \E out \in ClientOutcomes[RewardsOperation] :
         Access("uncles", <<>>, Block_uncles(entity, out), fetched)

ReadBlockUncleInclusionReward ==
    /\ entity.cls = "Block"
    /\ \E out \in ClientOutcomes[RewardsOperation] :
         Access("uncle_inclusion_reward", <<>>,
                Block_uncle_inclusion_reward(entity, out), fetched)

ReadBlockDatetimeMined ==
    /\ entity.cls = "Block"
    /\ \E out \in ClientOutcomes[RewardsOperation] :
         Access("datetime_mined", <<>>, Block_datetime_mined(entity, out),
                fetched)

ReadTransactionBlockNumber ==
    /\ entity.cls = "Transaction"
    /\ Access("block_number", <<>>, Transaction_block_number(entity), fetched)

ReadTransactionBlock ==
    /\ entity.cls = "Transaction"
    /\ Access("block", <<>>, Transaction_block(entity), fetched)

ReadTransactionValue ==
    /\ entity.cls = "Transaction"
    /\ Access("value", <<>>, Transaction_value(entity), fetched)

ReadTransactionHash ==
    /\ entity.cls = "Transaction"
    /\ Access("hash", <<>>, Transaction_hash(entity), fetched)

\* the entity, or the constructor's exception, is dropped
Discard ==
    /\ lastCall # NoCall
    /\ entity' = NoEntity
    /\ client' = NoClient
    /\ clientCalls' = [o \in EntityOperations |-> 0]
    /\ returnedOps' = {}
    /\ accessed' = {}
    /\ fetched' = NoFetched
    /\ lastCall' = NoCall
    /\ accesses' = 0
    /\ firstRead' = NoReads
    /\ UNCHANGED <<clientVars, responseVars>>

EntityNext ==
    \/ NewClient
    \/ NewAddressEntity
    \/ NewTokenEntity
    \/ NewTransactionEntity
    \/ NewBlockEntity
    \/ ReadAddressBalance
    \/ ReadAddressTransactions
    \/ ReadAddressBlocksMined
    \/ ReadAddressBlocksMinedItem
    \/ CallTokenBalance
    \/ ReadTokenSupply
    \/ ReadBlockTimeStamp
    \/ ReadBlockMiner
    \/ ReadBlockReward
    \/ ReadBlockUncles
    \/ ReadBlockUncleInclusionReward
    \/ ReadBlockDatetimeMined
    \/ ReadTransactionBlockNumber
    \/ ReadTransactionBlock
    \/ ReadTransactionValue
    \/ ReadTransactionHash
    \/ Discard

\* no client and no entity have been constructed
EntitySpecInit ==
    /\ ClientInit
    /\ client = NoClient
    /\ EntityInit
    /\ ResponseInit

EntitySpec == EntitySpecInit /\ [][EntityNext]_vars

(***************************************************************************)
(* The response classes on their own: an HTTP response is in hand and      *)
(* objects of one response class are constructed from it, one after the    *)
(* other.                                                                  *)
(*                                                                         *)
(* received    the response class and the HTTP response handed to it       *)
(* constructed what each construction raised or built, in order            *)
(***************************************************************************)
\* the HTTP responses in hand: status code 200 or 403, a body that is no
\* JSON or an envelope whose result is null, a string, or a list of
\* {account, balance} pairs
ReceivedResponses ==
    [status_code : {200, RateLimitCode},
     text : {InvalidBody}
            \cup [kind : {"object"}, status : {"1", "0"}, message : {"OK"},
                  result : {NoneValue, StrValue(<<"7">>), StrValue(<<"x">>)}
                           \cup {ListValue(l) :
                                    l \in SeqsUpTo(Items, MaxPairs)}]]

ResponseSpecInit ==
    /\ ClientInit
    /\ client = NoClient
    /\ EntityInit
    /\ received \in [response_object : ResponseClasses,
                      resp : ReceivedResponses]
    /\ constructed = <<>>

\* a variant that uses up the body of the response as it reads it
ConstructResponse_consuming ==
    /\ Len(constructed) < MaxConstructions
    /\ constructed' =
         Append(constructed,
                EtherscanResponse_init(received.response_object,
                                       received.resp))
    /\ received' = [received EXCEPT !.resp.text = InvalidBody]
    /\ UNCHANGED <<clientVars, client, entityVars>>

\* response_object(resp): __init__ reads resp.status_code and resp.text and
\* keeps a reference to resp
ConstructResponse ==
    /\ Len(constructed) < MaxConstructions
    /\ constructed' =
         Append(constructed,
                EtherscanResponse_init(received.response_object,
                                       received.resp))
    /\ received' = received
    /\ UNCHANGED <<clientVars, client, entityVars>>

ResponseSpec == ResponseSpecInit /\ [][ConstructResponse]_vars

(***************************************************************************)
(* Properties of the retry policy.                                         *)
(***************************************************************************)
FatalKinds == {"EtherscanDataError", "EtherscanRequestError"}

C2_AtMostFiveAttemptsLastErrorUnchanged ==
    /\ httpCalls <= 5
    /\ attempt_number <= 5
    /\ (pc = "done" /\ httpCalls = 5 /\ lastAttempt.has_exception) =>
          /\ final = "raised"
          /\ raised = lastAttempt.exc
          /\ raised.attempt = 5
          /\ raised.kind \in ExceptionKinds

\* five attempts timed out and the operation ended with the fifth timeout
C2_Witness ==
    /\ pc = "done"
    /\ httpCalls = 5
    /\ final = "raised"
    /\ raised = [kind |-> "requests.Timeout", attempt |-> 5]

\* C3: after retryable failures on attempts 1 to 4, a success on attempt 5
\* is returned as parsed from the response of attempt 5, after exactly 5
\* HTTP calls; the operation never gives up on a retryable error before the
\* 5th attempt.
C3_FifthAttemptSuccessIsReturned ==
    /\ (pc = "done" /\ attempt_number = 5 /\ ~lastAttempt.has_exception) =>
          /\ final = "returned"
          /\ httpCalls = 5
          /\ returned = lastAttempt.obj
          /\ returned.cls = response_object
          /\ returned.response_status_code = lastResp.status_code
          /\ returned.status = lastResp.text.status
          /\ returned.message = lastResp.text.message
    /\ (/\ pc = "done" /\ final = "raised" /\ lastAttempt.has_exception
        /\ raised.kind \notin FatalKinds) => httpCalls = 5

\* the fifth attempt of get_single_balance returned the balance 7
C3_Witness ==
    /\ pc = "done"
    /\ op = "get_single_balance"
    /\ httpCalls = 5
    /\ final = "returned"
    /\ returned.attr = "balance"
    /\ returned.number = 7
    /\ lastResp.text.result = StrValue(<<"7">>)

C5_RateLimitIsRetried ==
    (lastHttp.status_code = 403 /\ httpCalls < 5) => pc = "attempt"

(***************************************************************************)
(* Properties of the response parser, seen through the operation that      *)
(* constructs the response object.                                         *)
(***************************************************************************)
\* C6: a response whose body cannot be decoded as JSON makes the
\* construction fail with RequestError, so the request is not retried.
C6_UndecodableBodyIsRequestError ==
    (lastHttp.body = "invalid") =>
        /\ pc = "done"
        /\ final = "raised"
        /\ raised.kind = "EtherscanRequestError"

\* C7: a status-200 response whose envelope reports a failure (message
\* "NOTOK", status absent or not "1") makes the construction raise
\* DataError.
C7_FailedEnvelopeRaisesDataError ==
    (/\ pc = "done"
     /\ lastResp.status_code = 200
     /\ lastResp.text.kind = "object"
     /\ lastResp.text.message = "NOTOK"
     /\ lastResp.text.status # "1") =>
        /\ final = "raised"
        /\ raised.kind = "EtherscanDataError"

\* the response classes of response.py whose parse_response stores result
\* as it came
C8_StoringClasses ==
    { "TransactionsByAddressResponse", "BlocksMinedByAddressResponse",
      "ContractABIByAddressResponse", "ContractStatusResponse" }

C8_FailedEnvelope ==
    /\ pc = "done"
    /\ lastResp.status_code \in {200, 405}
    /\ lastResp.text.kind = "object"
    /\ lastResp.text.status # "1"

C9_BadStatusCodeIsRequestError ==
    (lastHttp.status_code = 405) =>
        /\ pc = "done"
        /\ final = "raised"
        /\ raised.kind = "EtherscanRequestError"

\* C10: every failure that reaches the caller of an operation is an error
\* of the taxonomy, a subclass of EtherscanBaseError.
C10_OnlyTaxonomyErrorsEscape ==
    (final = "raised") => isinstance(raised, "EtherscanBaseError")

(***************************************************************************)
(* Properties of the checks the operations make on their parameters.       *)
(***************************************************************************)
\* C12: get_multi_balance fails with AddressError when its argument is not
\* a list or is a list of more than 20 addresses, with no HTTP call and no
\* attempt of the retrying loop; with a list of 0 to 20 addresses it enters
\* the loop, and whatever it ends with comes from an attempt.
C12_MultiBalanceChecksBeforeRequest ==
    (op = "get_multi_balance") =>
        LET a == params.addresses
            rejected == a.type # "list" \/ a.len > 20
        IN /\ rejected =>
                 /\ pc = "done"
                 /\ final = "raised"
                 /\ raised = [kind |-> "EtherscanAddressError", attempt |-> 0]
                 /\ httpCalls = 0
                 /\ attempt_number = 0
                 /\ lastAttempt = NoAttempt
           /\ ~rejected =>
                 /\ attempt_number >= 1
                 /\ response_object = "MultiAddressBalanceResponse"
                 /\ (pc = "done") => httpCalls >= 1
                 /\ (final = "raised") =>
                       /\ raised.attempt >= 1
                       /\ raised.kind # "EtherscanAddressError"

\* a list of 21 addresses was refused without any HTTP call
C12_Witness ==
    /\ pc = "done"
    /\ op = "get_multi_balance"
    /\ params.addresses = [type |-> "list", len |-> 21]
    /\ raised.kind = "EtherscanAddressError"
    /\ httpCalls = 0

\* C13: get_transactions_by_address, get_transaction_by_hash and
\* get_blocks_mined_by_address fail with TransactionError before any HTTP
\* call when exactly one of page and offset is supplied, and issue the
\* request when both or neither are supplied.
C13_ExactlyOneOfPageAndOffsetFails ==
    (op \in PagedOperations) =>
        LET exactlyOne == (params.page = PyNone) # (params.offset = PyNone)
        IN /\ exactlyOne =>
                 /\ pc = "done"
                 /\ final = "raised"
                 /\ raised.kind = "EtherscanTransactionError"
                 /\ httpCalls = 0
           /\ ~exactlyOne => attempt_number >= 1

(***************************************************************************)
(* Properties of the values the operations return.                         *)
(***************************************************************************)
\* a non-empty string of decimal digits
IsDecimal(t) == Len(t) > 0 /\ \A i \in 1..Len(t) : t[i] \in {"0", "7"}

\* the number a string of decimal digits denotes, digit by place value
RECURSIVE PlaceValues(_, _)
PlaceValues(t, i) ==
    IF i > Len(t) THEN 0
    ELSE (IF t[i] = "7" THEN 7 ELSE 0) * 10 ^ (Len(t) - i)
         + PlaceValues(t, i + 1)

\* C20: when get_single_balance ends on a status-200 response whose
\* envelope has a numeric string as result, it returns a
\* SingleAddressBalanceResponse whose balance is the number the string
\* denotes and whose status and message are the envelope's.
C20_SingleBalanceIsNumericParse ==
    (/\ pc = "done"
     /\ op = "get_single_balance"
     /\ lastResp.status_code = 200
     /\ lastResp.text.kind = "object"
     /\ lastResp.text.result.type = "str"
     /\ IsDecimal(lastResp.text.result.text)) =>
        /\ final = "returned"
        /\ returned.cls = "SingleAddressBalanceResponse"
        /\ returned.attr = "balance"
        /\ returned.number = PlaceValues(lastResp.text.result.text, 1)
        /\ returned.status = lastResp.text.status
        /\ returned.message = lastResp.text.message
        /\ returned.response_status_code = 200

\* the first attempt got {status: "0", message: "NOTOK", result: "70"} and
\* the balance 70 was returned
C20_Witness ==
    /\ pc = "done"
    /\ op = "get_single_balance"
    /\ httpCalls = 1
    /\ lastResp.status_code = 200
    /\ lastResp.text.status = "0"
    /\ lastResp.text.message = "NOTOK"
    /\ lastResp.text.result = StrValue(<<"7", "0">>)
    /\ final = "returned"
    /\ returned.number = 70

(***************************************************************************)
(* Properties of the constructors, checked under EntitySpec.               *)
(***************************************************************************)
\* C11: Client(apikey, timeout) fails with InitializationError whenever
\* apikey is not a non-empty string or timeout is not a positive number (a
\* boolean is no number), and succeeds otherwise.
C11_ClientRejectsEmptyKeyAndBadTimeout ==
    (lastCall.name = "Client") =>
        LET apikey == lastCall.args[1]
            timeout == lastCall.args[2]
            accepted == /\ apikey.kind = "str"
                        /\ Len(apikey.json.text) > 0
                        /\ timeout.kind \in {"int", "float"}
                        /\ timeout.num > 0
        IN /\ ~accepted => lastCall.exc = "EtherscanInitializationError"
           /\ accepted => lastCall.exc = "none"

\* C19: the constructors of Address, Token, Transaction and Block fail with
\* InitializationError exactly when the key has the wrong type (Address and
\* Token: not a string; Transaction: not a dict; Block: neither an integer,
\* which a boolean is, nor a string), no entity exists after a failure and
\* no client call has been made; otherwise the entity holds the key.
C19_ConstructorsRejectWrongKeyType ==
    (lastCall.name \in {"Address", "Token", "Transaction", "Block"}) =>
        LET key == lastCall.args[1]
            wrong ==
                CASE lastCall.name \in {"Address", "Token"} ->
                       key.kind # "str"
                  [] lastCall.name = "Transaction" -> key.kind # "dict"
                  [] OTHER -> key.kind \notin {"int", "bool", "str"}
        IN /\ (lastCall.exc = "EtherscanInitializationError") <=> wrong
           /\ wrong =>
                 /\ entity = NoEntity
                 /\ \A o \in EntityOperations : clientCalls[o] = 0
           /\ ~wrong =>
                 /\ lastCall.exc = "none"
                 /\ entity.cls = lastCall.name
                 /\ entity.key = key
                 /\ \A o \in EntityOperations : clientCalls[o] = 0

\* Block(2.0) failed with InitializationError and left no entity
C19_Witness ==
    /\ lastCall.name = "Block"
    /\ lastCall.args = <<PyFloat(2)>>
    /\ lastCall.exc = "EtherscanInitializationError"
    /\ entity = NoEntity
    /\ clientCalls[RewardsOperation] = 0

(***************************************************************************)
(* Properties of the lazily computed fields, checked under EntitySpec.     *)
(***************************************************************************)
C14_DerivedFields ==
    { "balance", "transactions", "blocks_mined", "supply", "time_stamp",
      "block_miner", "block_reward", "uncles", "uncle_inclusion_reward",
      "datetime_mined" }

\* C14: once a read of a derived field of an entity has returned, no later
\* read of the same field of the same entity makes a client call.
C14_DerivedFieldsAreComputedOnce ==
    [][ \A f \in C14_DerivedFields :
          (f \in accessed /\ lastCall'.name = f /\ accesses' = accesses + 1)
              => clientCalls' = clientCalls ]_vars

\* C15: every read of Address.transactions that returns, the first one
\* included, returns a TransactionContainer over the normal transactions
\* followed by the internal transactions, as the API returned them.
C15_TransactionsAreNormalThenInternal ==
    (/\ lastCall.name = "transactions"
     /\ lastCall.exc = "none"
     /\ fetched.normal.kind = "list"
     /\ fetched.internal.kind = "list") =>
        lastCall.value =
            Holding("TransactionContainer",
                    Json(ListValue(fetched.normal.json.items
                                   \o fetched.internal.json.items)))

\* C16: Transaction.block returns a Block whose block number is the integer
\* the record's blockNumber denotes, also when block is read before
\* block_number.
C16_BlockOfTransactionHasItsBlockNumber ==
    (/\ entity.cls = "Transaction"
     /\ lastCall.name = "block"
     /\ Len(entity.key.json.items) = 1
     /\ IsDecimal(entity.key.json.items[1].balance)) =>
        /\ lastCall.exc = "none"
        /\ lastCall.value =
              Holding("Block",
                      PyInt(PlaceValues(entity.key.json.items[1].balance, 1)))

\* C17: constructing a Block makes no client call, and once a
\* rewards-by-block-number call has returned to a Block no read of
\* time_stamp, block_miner, block_reward, uncles, uncle_inclusion_reward or
\* datetime_mined makes another one.
C17_OneRewardsCallPerBlock ==
    [][ /\ (entity.cls = "none" /\ entity'.cls = "Block") =>
              clientCalls' = clientCalls
        /\ (/\ entity.cls = "Block" /\ entity'.cls = "Block"
            /\ RewardsOperation \in returnedOps) =>
              clientCalls'[RewardsOperation] = clientCalls[RewardsOperation]
      ]_vars

\* C18: when the mined-blocks call of an Address has returned a list whose
\* i-th record has a decimal blockNumber, blocks_mined[i] is a Block with
\* that number as its block_number.
C18_MinedBlockHasRecordsBlockNumber ==
    (/\ lastCall.name = "blocks_mined[]"
     /\ "get_blocks_mined_by_address" \in returnedOps
     /\ entity.cache["_block_list"].of = "list"
     /\ lastCall.args[1].num < Len(entity.cache["_block_list"].json.items)
     /\ IsDecimal(entity.cache["_block_list"]
                    .json.items[lastCall.args[1].num + 1].balance)) =>
        /\ lastCall.exc = "none"
        /\ lastCall.value =
              Holding("Block",
                      PyInt(PlaceValues(
                          entity.cache["_block_list"]
                            .json.items[lastCall.args[1].num + 1].balance,
                          1)))

(***************************************************************************)
(* Properties of the waits of the retrying loop.                           *)
(***************************************************************************)
\* the smaller of two numbers
C25_Min(a, b) == IF a < b THEN a ELSE b

\* C25 as stated: the i-th wait of an operation, the one before attempt
\* i + 1, is min(2^(i-1) seconds, 10 seconds): 1 second before the second
\* attempt, doubling, never more than 10 seconds.
C25_WaitsStartAtOneSecond ==
    \A i \in 1..Len(slept) :
        slept[i] = C25_Min(1000 * 2 ^ (i - 1), 10000)

\* C25 as amended: the loop has slept once before each attempt but the
\* first, and the i-th wait is min(2^i seconds, 10 seconds): 2 seconds
\* before the second attempt, then 4, 8 and 10 seconds; no wait exceeds 10
\* seconds and no wait is shorter than the one before it.
C25_WaitsStartAtTwoSeconds ==
    /\ (pc # "idle" /\ attempt_number >= 1) =>
          Len(slept) = attempt_number - 1
    /\ (pc = "idle" \/ attempt_number = 0) => slept = <<>>
    /\ \A i \in 1..Len(slept) :
          /\ slept[i] = C25_Min(1000 * 2 ^ i, 10000)
          /\ slept[i] <= 10000
          /\ i > 1 => slept[i] >= slept[i - 1]

\* the fifth attempt follows waits of 2, 4, 8 and 10 seconds
C25_Witness ==
    /\ attempt_number = 5
    /\ slept = <<2000, 4000, 8000, 10000>>

(***************************************************************************)
(* Properties of the client's state.                                       *)
(***************************************************************************)
\* C26: every attempt of a client operation makes exactly one HTTP call,
\* with the client's timeout and a URL made of the client's base URL and
\* key_uri; no step of any operation changes the client's apikey, timeout,
\* base URL or key_uri, which stay as Client() set them; the count of HTTP
\* calls changes in no other step but the start and the end of an
\* operation, which reset it.
C26_OneHttpCallPerAttemptClientUnchanged ==
    [][ /\ client' = client
        /\ client'.apikey = DefaultClient.obj.apikey
        /\ client'.timeout = DefaultClient.obj.timeout
        /\ client'._base_url = DefaultClient.obj._base_url
        /\ client'.key_uri = DefaultClient.obj.key_uri
        /\ (pc = "attempt") =>
              /\ httpCalls' = httpCalls + 1
              /\ requested'.timeout = client.timeout
              /\ requested'.url.base = client._base_url
              /\ requested'.url.key_uri = client.key_uri
              /\ requested'.url.operation = op
        /\ (pc # "attempt") => httpCalls' = 0 ]_vars

\* the fifth HTTP call of an operation was made with the timeout of
\* Client(), 5 seconds, and the client is as it was constructed
C26_Witness ==
    /\ pc = "done"
    /\ httpCalls = 5
    /\ requested.timeout = PyInt(5)
    /\ requested.url.key_uri = <<"&apikey=", "YourApiKeyToken">>
    /\ client = DefaultClient.obj
    /\ client.timeout = PyInt(5)

(***************************************************************************)
(* Properties of the response classes, checked under ResponseSpec.         *)
(***************************************************************************)
\* an object of MultiAddressBalanceResponse has been constructed from a
\* response, not a 403, whose result is a list of pairs with decimal
\* balances
C21_ListOfPairs ==
    /\ Len(constructed) >= 1
    /\ received.response_object = "MultiAddressBalanceResponse"
    /\ received.resp.status_code # 403
    /\ received.resp.text.kind = "object"
    /\ received.resp.text.result.type = "list"
    /\ \A i \in 1..Len(received.resp.text.result.items) :
          IsDecimal(received.resp.text.result.items[i].balance)

\* C21 as stated: balances has one entry per pair of the list, its size is
\* the length of the list also when an account occurs more than once, and
\* the account of each pair maps to the number its balance denotes.
C21_OneEntryPerPair ==
    C21_ListOfPairs =>
        LET items == received.resp.text.result.items
            balances == constructed[1].obj.balances
        IN /\ constructed[1].exc = "none"
           /\ Cardinality(DOMAIN balances) = Len(items)
           /\ \A i \in 1..Len(items) :
                 /\ items[i].account \in DOMAIN balances
                 /\ balances[items[i].account] =
                       PlaceValues(items[i].balance, 1)

\* C21 as amended: balances has one entry per distinct account of the
\* list, so its size is the number of distinct accounts, the length of the
\* list exactly when no account occurs twice; each account maps to the
\* number denoted by the balance of the last pair that names it.
C21_OneEntryPerAccountLastPairWins ==
    C21_ListOfPairs =>
        LET items == received.resp.text.result.items
            balances == constructed[1].obj.balances
            accounts == {items[i].account : i \in 1..Len(items)}
            distinct == \A i, j \in 1..Len(items) :
                            items[i].account = items[j].account => i = j
        IN /\ constructed[1].exc = "none"
           /\ constructed[1].obj.attr = "balances"
           /\ DOMAIN balances = accounts
           /\ Cardinality(DOMAIN balances) <= Len(items)
           /\ (Cardinality(DOMAIN balances) = Len(items)) <=> distinct
           /\ \A i \in 1..Len(items) :
                 (\A j \in (i + 1)..Len(items) :
                      items[j].account # items[i].account) =>
                     balances[items[i].account] =
                         PlaceValues(items[i].balance, 1)

\* the list [{a, "7"}, {a, "0"}] gave the one entry a: 0
C21_Witness ==
    /\ C21_ListOfPairs
    /\ received.resp.text.result.items =
          <<[account |-> "a", balance |-> <<"7">>],
            [account |-> "a", balance |-> <<"0">>]>>
    /\ constructed[1].exc = "none"
    /\ constructed[1].obj.balances = [a \in {"a"} |-> 0]

C23_TokenBalanceIsNeverCached ==
    [][ (lastCall'.name = "token_balance" /\ accesses' = accesses + 1) =>
            /\ clientCalls' =
                  [clientCalls EXCEPT
                      !["get_token_balance_by_address"] = @ + 1]
            /\ entity' = entity ]_vars

\* two calls of token_balance on a Token made two client calls, the second
\* returned 7, and nothing is cached
C23_Witness ==
    /\ entity.cls = "Token"
    /\ accesses = 2
    /\ lastCall.name = "token_balance"
    /\ lastCall.value = PyFloat(7)
    /\ clientCalls["get_token_balance_by_address"] = 2
    /\ entity.cache = EmptyCache

\* C27: a read of balance on an Address whose computed balance is 0, of
\* supply on a Token whose computed supply is 0, or of transactions on an
\* Address whose computed merged list is empty, calls the client again.
C27_FalsyFieldIsRecomputed ==
    [][ /\ (/\ entity.cls = "Address"
            /\ entity.cache["_balance"] = PyFloat(0)
            /\ lastCall'.name = "balance" /\ accesses' = accesses + 1) =>
               clientCalls'["get_single_balance"] =
                   clientCalls["get_single_balance"] + 1
        /\ (/\ entity.cls = "Token"
            /\ entity.cache["_supply"] = PyFloat(0)
            /\ lastCall'.name = "supply" /\ accesses' = accesses + 1) =>
               clientCalls'["get_token_supply_by_address"] =
                   clientCalls["get_token_supply_by_address"] + 1
        /\ (/\ entity.cls = "Address"
            /\ entity.cache["_transactions"] = Json(ListValue(<<>>))
            /\ lastCall'.name = "transactions"
            /\ accesses' = accesses + 1) =>
               clientCalls'["get_transactions_by_address"] >
                   clientCalls["get_transactions_by_address"]
      ]_vars

\* two reads of the balance of an Address both returned 0 and made two
\* client calls
C27_Witness ==
    /\ entity.cls = "Address"
    /\ accesses = 2
    /\ accessed = {"balance"}
    /\ lastCall.name = "balance"
    /\ lastCall.value = PyFloat(0)
    /\ entity.cache["_balance"] = PyFloat(0)
    /\ clientCalls["get_single_balance"] = 2

\* C29: no read of a property of a Transaction changes its raw record or
\* makes a client call, and every read of a property ends as the first read
\* of that property ended.
C29_TransactionReadsAreIdempotent ==
    [][ (/\ entity.cls = "Transaction" /\ entity'.cls = "Transaction"
         /\ accesses' = accesses + 1) =>
            /\ entity'.key = entity.key
            /\ clientCalls' = clientCalls
            /\ [exc |-> lastCall'.exc, value |-> lastCall'.value] =
                  firstRead'[lastCall'.name] ]_vars

\* C30: the construction of an Address, a Block, a Token or a Transaction
\* makes no client call, so no HTTP call, and gives the entity the key it
\* was constructed with; no read of a property and no call of a method
\* changes the key or the class of the entity.
C30_KeyIsImmutable ==
    [][ /\ (entity.cls = "none" /\ entity'.cls # "none") =>
              /\ entity'.key = lastCall'.args[1]
              /\ clientCalls' = clientCalls
              /\ \A o \in EntityOperations : clientCalls'[o] = 0
              /\ returnedOps' = {}
              /\ httpCalls' = httpCalls
        /\ (entity.cls # "none" /\ entity'.cls # "none") =>
              /\ entity'.key = entity.key
              /\ entity'.cls = entity.cls ]_vars

\* an Address constructed from "a" still has that address after two reads
\* of its balance that called the client and cached 7
C30_Witness ==
    /\ entity.cls = "Address"
    /\ entity.key = PyStr(<<"a">>)
    /\ accesses = 2
    /\ clientCalls["get_single_balance"] >= 1
    /\ entity.cache["_balance"] = PyFloat(7)

====
